---- MODULE Spec2Model ----
(***************************************************************************)
(* The team assignment engine of algorithm/algorithms.py: the option       *)
(* object and its validation, the choose-loop shared by WeightAlgorithm    *)
(* and RandomAlgorithm, the priority search seeded by the weight strategy  *)
(* and the four phases of SocialAlgorithm.generate.                        *)
(*                                                                         *)
(* student.py, team.py, teamset.py, utility.py and social_algorithm/ are   *)
(* imported by algorithms.py and are not part of the sources at hand; the  *)
(* definitions that stand for them follow the design document and are      *)
(* marked "design document" below.                                         *)
(***************************************************************************)
EXTENDS Integers, Sequences, FiniteSets, TLC

\* ------------------------------------------------------------------ bounds
\* student ids, and how many of them the choose-loop strategies are given
NumStudents == 4
ChooseLoopStudents == 3
NumTeams == 2
\* the largest max_teams_size of the choose-loop strategies and of the social one
MaxTeamSize == 2
SocialMaxTeamSize == 3
\* the most members a team of the roster passed to the social strategy holds
InitialMembers == 1
\* the most passes of the priority search before MAX_TIME has elapsed
MaxIterations == 2

Students == 1..NumStudents
Teams == 1..NumTeams
\* Python's None, for a team or a student reference
None == 0

VARIABLES
    algorithm,              \* the Algorithm subclass whose generate runs
    pc,                     \* position in generate
    students,               \* the students argument of generate, a list
    team_students,          \* team.students of every team of the roster
    student_team,           \* student.team of every student (None: not added)
    is_locked,              \* team.is_locked
    initial_team_students,  \* the roster as it was passed to generate
    max_teams_size,         \* team_generation_option.max_teams_size
    min_team_size,          \* team_generation_option.min_team_size
    options,                \* self.options, an AlgorithmOptions
    attributes,             \* student.skills, one attribute per student
    relationships,          \* student.relationships[other.id]
    preferences,            \* student.preferences, project ids by rank
    team_sets,              \* team_sets of PriorityAlgorithm.generate
    iteration,              \* passes of its while loop made so far
    result,                 \* what generate returned (None: nothing yet)
    clique_student_lists,   \* SocialAlgorithm.generate: the cliques of step 1
    clique_index,           \* the place of its for loop in them
    k,                      \* the clique size of steps 2 and 3
    largest_fragment_team,  \* the team step 3 fills
    stragglers,             \* the students step 4 iterates over
    straggler_index,        \* the place of its for loop in them
    exception,              \* the exception raised ("none": none)
    arguments,              \* the arguments AlgorithmOptions is constructed with
    priority_team_sets,     \* the PriorityTeamSet objects of priority_teamset.py
    returned,               \* the last call on one of them and what it returned
    first_returned          \* what the first calculate_score on each returned

\* what generate reads and never writes
inputs == <<algorithm, students, is_locked, initial_team_students, max_teams_size,
            min_team_size, options, attributes, relationships, preferences,
            arguments>>

\* the roster and the back-references
roster == <<team_students, student_team>>

\* the locals of PriorityAlgorithm.generate
search == <<team_sets, iteration>>

\* the locals of SocialAlgorithm.generate
social == <<clique_student_lists, clique_index, k, largest_fragment_team,
            stragglers, straggler_index, exception>>

\* the objects of priority_teamset.py and the calls made on them
heap == <<priority_team_sets, returned, first_returned>>

vars == <<pc, inputs, roster, search, social, result, heap>>

\* ----------------------------------------------------------- list helpers
Range(s) == {s[i] : i \in 1..Len(s)}

RECURSIVE SetToSeq(_)
\* the elements of a set of integers as a list in ascending order
SetToSeq(S) ==
    IF S = {} THEN <<>>
    ELSE LET m == CHOOSE x \in S : \A y \in S : x <= y
         IN <<m>> \o SetToSeq(S \ {m})

RECURSIVE SumSeq(_)
SumSeq(s) == IF s = <<>> THEN 0 ELSE Head(s) + SumSeq(Tail(s))

\* every list without repetition over S, the empty one included
ListsOver(S) ==
    UNION {{f \in [1..n -> S] : \A i, j \in 1..n : i # j => f[i] # f[j]} :
           n \in 0..Cardinality(S)}

\* ------------------------------------------- Team and Student (design document)
\* Team.size
size(team) == Len(team_students[team])

\* Team.get_students
get_students(team) == team_students[team]

\* Student.is_added
is_added(student) == student_team[student] # None

\* Team.add_student for each student of student_list, in order
add_students(ts, team, student_list) ==
    [ts EXCEPT ![team] = @ \o student_list]

\* Student.add_team for each student of student_list
add_team(st, team, student_list) ==
    [s \in Students |-> IF s \in Range(student_list) THEN team ELSE st[s]]

\* the project of a team carries its requirements: odd teams ask for an
\* attribute above 5, even teams for one below 5
project_requirements(team) ==
    IF team % 2 = 1
    THEN <<[attribute |-> 1, operator |-> "more than", value |-> 5]>>
    ELSE <<[attribute |-> 1, operator |-> "less than", value |-> 5]>>

\* --------------------------------------------------- utility (design document)
meets_requirement(req, student) ==
    CASE req.operator = "more than" -> attributes[student] > req.value
      [] req.operator = "less than" -> attributes[student] < req.value
      [] OTHER -> attributes[student] = req.value

\* the number of requirements of the team's project the student meets
get_requirement_utility(team, student) ==
    Cardinality({i \in 1..Len(project_requirements(team)) :
                    meets_requirement(project_requirements(team)[i], student)})

\* friends of the student among the members, less the enemies
get_social_utility(team, student) ==
    Cardinality({i \in 1..size(team) :
                    relationships[student][get_students(team)[i]] = "FRIEND"})
    - Cardinality({i \in 1..size(team) :
                    relationships[student][get_students(team)[i]] = "ENEMY"})

\* one for every diversify option whose value the team does not hold yet and
\* one for every concentrate option whose value it holds already (there is one
\* attribute, of id 1)
get_diversity_utility(team, student, diversify_options, concentrate_options) ==
    LET represented == \E i \in 1..size(team) :
            attributes[get_students(team)[i]] = attributes[student]
    IN  Cardinality({i \in 1..Len(diversify_options) :
                        diversify_options[i].id = 1 /\ ~represented})
        + Cardinality({i \in 1..Len(concentrate_options) :
                        concentrate_options[i].id = 1 /\ represented})

\* max_project_preferences less the rank of the team's project (team t runs
\* project t) in the student's preferences, 0 when it is not among them
get_preference_utility(team, student, max_project_preferences) ==
    LET ranks == {i \in 1..Len(preferences[student]) :
                     preferences[student][i] = team}
    IN  IF ranks = {} \/ max_project_preferences = 0 THEN 0
        ELSE LET rank == CHOOSE i \in ranks : \A j \in ranks : i <= j
             IN  IF rank > max_project_preferences THEN 0
                 ELSE max_project_preferences - (rank - 1)

\* ------------------------------------------------------------- Algorithm
\* get_remaining_students without the is_added test
get_remaining_students_with_added(all_students) == all_students

get_remaining_students(all_students) ==
    SelectSeq(all_students, LAMBDA student : ~is_added(student))

\* the hook of Algorithm, which permits every student
student_permitted_in_team(student, team) == TRUE

\* the hook as a subclass of WeightAlgorithm overrides it: a student whose
\* attribute is 10 is not permitted in team 1
subclass_student_permitted_in_team(student, team) ==
    ~(attributes[student] = 10 /\ team = 1)

\* self.student_permitted_in_team(student, team)
self_student_permitted_in_team(student, team) ==
    IF algorithm = "weight_subclass"
    THEN subclass_student_permitted_in_team(student, team)
    ELSE student_permitted_in_team(student, team)

\* get_available_teams called with a student, which no generate does
get_available_teams_for(all_teams, student) ==
    SelectSeq(all_teams,
              LAMBDA team : /\ size(team) < max_teams_size /\ ~is_locked[team]
                            /\ self_student_permitted_in_team(student, team))

\* get_available_teams without the is_locked test
get_available_teams_ignoring_lock(all_teams) ==
    SelectSeq(all_teams, LAMBDA team : size(team) < max_teams_size)

\* get_available_teams called without a student
get_available_teams(all_teams) ==
    SelectSeq(all_teams,
              LAMBDA team : size(team) < max_teams_size /\ ~is_locked[team])

\* the teams argument of generate: the roster in order
teams == [i \in 1..NumTeams |-> i]

\* -------------------------------------------------------- WeightAlgorithm
\* _get_utility without the test for a student already in the team
get_utility_no_member_test(team, student) ==
    get_requirement_utility(team, student) * options.requirement_weight
    + get_social_utility(team, student) * options.social_weight
    + get_diversity_utility(team, student, options.diversify_options,
                            options.concentrate_options) * options.diversity_weight
    + get_preference_utility(team, student, options.max_project_preferences)
        * options.preference_weight

\* WeightAlgorithm._get_utility
get_utility(team, student) ==
    IF student \in Range(get_students(team)) THEN 0
    ELSE get_requirement_utility(team, student) * options.requirement_weight
         + get_social_utility(team, student) * options.social_weight
         + get_diversity_utility(team, student, options.diversify_options,
                                 options.concentrate_options) * options.diversity_weight
         + get_preference_utility(team, student, options.max_project_preferences)
             * options.preference_weight

RECURSIVE smallest_team_loop(_, _, _)
\* the loop over teams of choose, from its i-th team on
smallest_team_loop(team_list, i, smallest_team) ==
    IF i > Len(team_list) THEN smallest_team
    ELSE smallest_team_loop(team_list, i + 1,
            IF smallest_team = None \/ size(team_list[i]) < size(smallest_team)
            THEN team_list[i] ELSE smallest_team)

\* smallest_team of choose (both strategies)
smallest_team_of(team_list) == smallest_team_loop(team_list, 1, None)

RECURSIVE greatest_utility_loop(_, _, _, _, _)
\* the loop over students of WeightAlgorithm.choose, from its i-th student on
greatest_utility_loop(team, student_list, i, greatest_utility, greatest_utility_student) ==
    IF i > Len(student_list) THEN greatest_utility_student
    ELSE LET utility == get_utility(team, student_list[i])
             take == greatest_utility_student = None \/ utility > greatest_utility
         IN  greatest_utility_loop(team, student_list, i + 1,
                 IF take THEN utility ELSE greatest_utility,
                 IF take THEN student_list[i] ELSE greatest_utility_student)

RECURSIVE greatest_utility_loop_from_zero(_, _, _, _, _)
\* the same loop with a student taken only when its utility exceeds the
\* greatest so far, which starts at 0
greatest_utility_loop_from_zero(team, student_list, i, greatest_utility,
                                greatest_utility_student) ==
    IF i > Len(student_list) THEN greatest_utility_student
    ELSE LET utility == get_utility(team, student_list[i])
             take == utility > greatest_utility
         IN  greatest_utility_loop_from_zero(team, student_list, i + 1,
                 IF take THEN utility ELSE greatest_utility,
                 IF take THEN student_list[i] ELSE greatest_utility_student)

RECURSIVE greatest_utility_loop_last(_, _, _, _, _)
\* the same loop with >= for >, which keeps the last student of a tie
greatest_utility_loop_last(team, student_list, i, greatest_utility,
                           greatest_utility_student) ==
    IF i > Len(student_list) THEN greatest_utility_student
    ELSE LET utility == get_utility(team, student_list[i])
             take == greatest_utility_student = None \/ utility >= greatest_utility
         IN  greatest_utility_loop_last(team, student_list, i + 1,
                 IF take THEN utility ELSE greatest_utility,
                 IF take THEN student_list[i] ELSE greatest_utility_student)

greatest_utility_student_from_zero(team, student_list) ==
    greatest_utility_loop_from_zero(team, student_list, 1, 0, None)

\* greatest_utility_student of WeightAlgorithm.choose
greatest_utility_student_of(team, student_list) ==
    greatest_utility_loop(team, student_list, 1, 0, None)

weight_choose_last_of_tie(team_list, student_list) ==
    LET smallest_team == smallest_team_of(team_list)
    IN  IF smallest_team = None THEN <<None, None>>
        ELSE <<smallest_team,
               greatest_utility_loop_last(smallest_team, student_list, 1, 0, None)>>

\* WeightAlgorithm.choose
weight_choose(team_list, student_list) ==
    LET smallest_team == smallest_team_of(team_list)
    IN  IF smallest_team = None THEN <<None, None>>
        ELSE <<smallest_team, greatest_utility_student_of(smallest_team, student_list)>>

\* -------------------------------------------------------- RandomAlgorithm
\* RandomAlgorithm.choose: every pair random.randint can make it return
random_choose(team_list, student_list) ==
    LET smallest_team == smallest_team_of(team_list)
    IN  IF smallest_team = None \/ Len(student_list) = 0 THEN {<<None, None>>}
        ELSE {<<smallest_team, student_list[i]>> : i \in 1..Len(student_list)}

\* ------------------------------------------------- _generate_with_choose
\* algorithm.choose(available_teams, remaining_students), as a set of pairs
choose(team_list, student_list) ==
    IF algorithm = "random" THEN random_choose(team_list, student_list)
    ELSE {weight_choose(team_list, student_list)}

\* one pass of the while loop that adds the chosen student to the chosen team
ChooseAndAdd ==
    /\ pc = "choose_loop"
    /\ \E pair \in choose(get_available_teams(teams), get_remaining_students(students)) :
          /\ pair[1] # None /\ pair[2] # None
          /\ team_students' = add_students(team_students, pair[1], <<pair[2]>>)
          /\ student_team' = add_team(student_team, pair[1], <<pair[2]>>)
    /\ UNCHANGED <<heap, pc, inputs, search, social, result>>

\* the pass that finds no team or no student and breaks
ChooseBreak ==
    /\ pc = "choose_loop"
    /\ \E pair \in choose(get_available_teams(teams), get_remaining_students(students)) :
          pair[1] = None \/ pair[2] = None
    /\ algorithm # "priority"
    /\ pc' = "done"
    /\ result' = team_students
    /\ UNCHANGED <<heap, inputs, roster, search, social>>

\* ------------------------------------------- PriorityTeamSet (design document)
\* PriorityTeamSet(teams=..., priorities=...): the teams with their members
PriorityTeamSet(team_list_students) == [teams |-> team_list_students]

\* PriorityTeamSet.clone: a deep copy, which holds the same members
clone(team_set) == [teams |-> team_set.teams]

\* members of the team whose attribute is the value the priority names
count_with_value(team_set, team, priority) ==
    Cardinality({i \in 1..Len(team_set.teams[team]) :
                    attributes[team_set.teams[team][i]] = priority.value})

\* the satisfaction of one priority: the teams that keep its min_of or max_of
get_priority_satisfaction(team_set, priority) ==
    Cardinality({t \in Teams :
        /\ priority.min_of # -1 =>
              count_with_value(team_set, t, priority) >= priority.min_of
        /\ priority.max_of # -1 =>
              count_with_value(team_set, t, priority) <= priority.max_of})

RECURSIVE Pow(_, _)
Pow(b, e) == IF e = 0 THEN 1 ELSE b * Pow(b, e - 1)

\* the multiplier of a priority: the earlier its order among the priorities,
\* the larger, one power of (teams + 1) per priority that comes after it
get_multiplier(priorities, priority) ==
    Pow(NumTeams + 1,
        Cardinality({i \in 1..Len(priorities) : priorities[i].order > priority.order}))

\* the fitness of a team-set: the satisfactions weighted by the multipliers
score(team_set) ==
    SumSeq([i \in 1..Len(options.priorities) |->
                get_priority_satisfaction(team_set, options.priorities[i])
                * get_multiplier(options.priorities, options.priorities[i])])

RECURSIVE insert_descending(_, _)
\* team_set put into a list sorted by descending score, after its equals
insert_descending(sorted, team_set) ==
    IF sorted = <<>> THEN <<team_set>>
    ELSE IF score(team_set) > score(Head(sorted))
         THEN <<team_set>> \o sorted
         ELSE <<Head(sorted)>> \o insert_descending(Tail(sorted), team_set)

RECURSIVE sort_reverse(_)
\* list.sort(reverse=True) under the order of the scores: stable
sort_reverse(team_set_list) ==
    IF team_set_list = <<>> THEN <<>>
    ELSE insert_descending(
            sort_reverse(SubSeq(team_set_list, 1, Len(team_set_list) - 1)),
            team_set_list[Len(team_set_list)])

\* ------------------------------------------------------ PriorityAlgorithm
NUM_KEPT_TEAM_SETS == 3

\* PriorityAlgorithm.set_default_weights
set_default_weights(o) ==
    [o EXCEPT !.social_weight = 1, !.diversity_weight = 1,
              !.requirement_weight = 1, !.preference_weight = 1]

\* PriorityAlgorithm.mutate
mutate(team_set) == <<clone(team_set)>>

RECURSIVE new_team_sets_of(_)
\* new_team_sets after the for loop over team_sets
new_team_sets_of(team_set_list) ==
    IF team_set_list = <<>> THEN <<>>
    ELSE mutate(Head(team_set_list)) \o new_team_sets_of(Tail(team_set_list))

\* the first non-empty team of a team-set loses its last member to the next
\* team of the roster (the first team follows the last)
move_one_student(team_set) ==
    LET from_teams == {t \in Teams : team_set.teams[t] # <<>>}
    IN  IF from_teams = {} THEN team_set
        ELSE LET from == CHOOSE t \in from_teams : \A u \in from_teams : t <= u
                 to == (from % NumTeams) + 1
                 moved == team_set.teams[from][Len(team_set.teams[from])]
                 without == [team_set.teams EXCEPT
                                ![from] = SubSeq(@, 1, Len(@) - 1)]
             IN  [teams |-> [without EXCEPT ![to] = @ \o <<moved>>]]

\* one pass of the while loop with a mutate that moves a student in the
\* team-set it is given and returns that team-set, not a clone of it: the kept
\* team-sets and the new ones are the same moved objects
team_sets_after_pass_in_place(team_set_list) ==
    LET moved == [i \in 1..Len(team_set_list) |-> move_one_student(team_set_list[i])]
        all == sort_reverse(moved \o moved)
    IN  SubSeq(all, 1, IF Len(all) < NUM_KEPT_TEAM_SETS THEN Len(all)
                                                      ELSE NUM_KEPT_TEAM_SETS)

\* one pass of the while loop without the slice to NUM_KEPT_TEAM_SETS
team_sets_after_pass_all_kept(team_set_list) ==
    sort_reverse(team_set_list \o new_team_sets_of(team_set_list))

\* team_sets after one pass of the while loop of PriorityAlgorithm.generate
team_sets_after_pass(team_set_list) ==
    LET all == sort_reverse(team_set_list \o new_team_sets_of(team_set_list))
    IN  SubSeq(all, 1, IF Len(all) < NUM_KEPT_TEAM_SETS THEN Len(all)
                                                      ELSE NUM_KEPT_TEAM_SETS)

\* generate_initial_teams: the pass of the choose-loop that breaks, and the
\* teams it leaves wrapped in the first team-set
GenerateInitialTeams ==
    /\ pc = "choose_loop"
    /\ algorithm = "priority"
    /\ \E pair \in choose(get_available_teams(teams), get_remaining_students(students)) :
          pair[1] = None \/ pair[2] = None
    /\ team_sets' = <<PriorityTeamSet(team_students)>>
    /\ pc' = "priority_loop"
    /\ UNCHANGED <<heap, inputs, roster, iteration, social, result>>

\* one pass of the while loop, entered while less than MAX_TIME has elapsed
PriorityPass ==
    /\ pc = "priority_loop"
    /\ iteration < MaxIterations
    /\ team_sets' = team_sets_after_pass(team_sets)
    /\ iteration' = iteration + 1
    /\ UNCHANGED <<heap, pc, inputs, roster, social, result>>

\* MAX_TIME has elapsed: return team_sets[0].teams
PriorityReturn ==
    /\ pc = "priority_loop"
    /\ result' = team_sets[1].teams
    /\ pc' = "done"
    /\ UNCHANGED <<heap, inputs, roster, search, social>>

\* --------------------------------- SocialGraph, CliqueFinder (design document)
\* SocialGraph(students, FRIEND * 2): an edge joins two students who both
\* call the other a friend
has_edge(a, b) ==
    a # b /\ relationships[a][b] = "FRIEND" /\ relationships[b][a] = "FRIEND"

is_clique(ids) == \A a, b \in ids : a # b => has_edge(a, b)

RECURSIVE subsets_of_size(_, _)
\* the sets of n ids of id_list, in the order of id_list
subsets_of_size(id_list, n) ==
    IF n = 0 THEN <<{}>>
    ELSE IF Len(id_list) < n THEN <<>>
    ELSE LET rest == subsets_of_size(Tail(id_list), n - 1)
         IN  [i \in 1..Len(rest) |-> {Head(id_list)} \cup rest[i]]
             \o subsets_of_size(Tail(id_list), n)

\* CliqueFinder(students, social_graph).get_cliques(size): the sets of exactly
\* size students of student_list that are pairwise joined
get_cliques(student_list, n) ==
    IF n < 1 THEN <<>>
    ELSE SelectSeq(subsets_of_size(student_list, n), is_clique)

RECURSIVE find_cliques_lte_size(_, _)
\* CliqueFinder.find_cliques_lte_size(size): the cliques of size, then of
\* every smaller size down to 1
find_cliques_lte_size(student_list, n) ==
    IF n < 1 THEN <<>>
    ELSE get_cliques(student_list, n) \o find_cliques_lte_size(student_list, n - 1)

\* -------------------------------------------------------- SocialAlgorithm
\* SocialAlgorithm.clique_ids_to_student_list
clique_ids_to_student_list(student_list, clique_ids) ==
    [i \in 1..Len(clique_ids) |->
        SelectSeq(student_list, LAMBDA student : student \in clique_ids[i])]

\* SocialAlgorithm.find_clique_teams
find_clique_teams(student_list, n) ==
    clique_ids_to_student_list(student_list, get_cliques(student_list, n))

\* SocialAlgorithm.find_lte_cliques
find_lte_cliques(student_list, n) ==
    clique_ids_to_student_list(student_list, find_cliques_lte_size(student_list, n))

RECURSIVE next_empty_team_loop(_, _)
next_empty_team_loop(team_list, i) ==
    IF i > Len(team_list) THEN None
    ELSE IF size(team_list[i]) = 0 THEN team_list[i]
    ELSE next_empty_team_loop(team_list, i + 1)

\* SocialAlgorithm.next_empty_team
next_empty_team(team_list) == next_empty_team_loop(team_list, 1)

\* SocialAlgorithm.has_empty_teams
has_empty_teams(team_list) == next_empty_team(team_list) # None

RECURSIVE largest_fragment_loop(_, _, _, _)
largest_fragment_loop(team_list, i, largest_size, largest_fragment) ==
    IF i > Len(team_list) THEN largest_fragment
    ELSE IF size(team_list[i]) >= min_team_size
         THEN largest_fragment_loop(team_list, i + 1, largest_size, largest_fragment)
    ELSE IF size(team_list[i]) > largest_size
         THEN largest_fragment_loop(team_list, i + 1, size(team_list[i]), team_list[i])
    ELSE largest_fragment_loop(team_list, i + 1, largest_size, largest_fragment)

\* SocialAlgorithm.get_largest_fragment_team
get_largest_fragment_team(team_list) == largest_fragment_loop(team_list, 1, 0, None)

\* step 1: the cliques of max_teams_size among the remaining students
Step1FindCliques ==
    /\ pc = "step1"
    /\ clique_student_lists' =
          find_clique_teams(get_remaining_students(students), max_teams_size)
    /\ clique_index' = 1
    /\ pc' = "step1_loop"
    /\ UNCHANGED <<heap, inputs, roster, search, k, largest_fragment_team, stragglers,
                   straggler_index, exception, result>>

\* step 1: one pass of the for loop, which saves a clique to the next empty team
Step1SaveClique ==
    /\ pc = "step1_loop"
    /\ clique_index <= Len(clique_student_lists)
    /\ next_empty_team(teams) # None
    /\ team_students' = add_students(team_students, next_empty_team(teams),
                                     clique_student_lists[clique_index])
    /\ student_team' = add_team(student_team, next_empty_team(teams),
                                clique_student_lists[clique_index])
    /\ clique_index' = clique_index + 1
    /\ UNCHANGED <<heap, pc, inputs, search, clique_student_lists, k,
                   largest_fragment_team, stragglers, straggler_index, exception,
                   result>>

\* step 1: the for loop ends, at the last clique or for want of an empty team
Step1End ==
    /\ pc = "step1_loop"
    /\ clique_index > Len(clique_student_lists) \/ next_empty_team(teams) = None
    /\ pc' = "step2"
    /\ UNCHANGED <<heap, inputs, roster, search, social, result>>

\* step 2: a pass of the while loop that finds a clique of min_team_size - 1
\* and saves the first to the next empty team
Step2SaveClique ==
    /\ pc = "step2"
    /\ has_empty_teams(teams)
    /\ LET found == find_clique_teams(get_remaining_students(students),
                                      min_team_size - 1)
       IN  /\ found # <<>>
           /\ team_students' = add_students(team_students, next_empty_team(teams),
                                            found[1])
           /\ student_team' = add_team(student_team, next_empty_team(teams), found[1])
    /\ k' = (min_team_size - 1) - 1
    /\ UNCHANGED <<heap, pc, inputs, search, clique_student_lists, clique_index,
                   largest_fragment_team, stragglers, straggler_index, exception,
                   result>>

\* step 2: a pass of the while loop that finds no clique and continues
Step2Continue ==
    /\ pc = "step2"
    /\ has_empty_teams(teams)
    /\ find_clique_teams(get_remaining_students(students), min_team_size - 1) = <<>>
    /\ k' = min_team_size - 1
    /\ UNCHANGED <<heap, pc, inputs, roster, search, clique_student_lists, clique_index,
                   largest_fragment_team, stragglers, straggler_index, exception,
                   result>>

\* step 2: no team is empty
Step2End ==
    /\ pc = "step2"
    /\ ~has_empty_teams(teams)
    /\ pc' = "step3"
    /\ UNCHANGED <<heap, inputs, roster, search, social, result>>

\* step 3: a pass of the outer while loop up to its inner loop
Step3PickFragment ==
    /\ pc = "step3"
    /\ get_remaining_students(students) # <<>>
    /\ get_largest_fragment_team(teams) # None
    /\ largest_fragment_team' = get_largest_fragment_team(teams)
    /\ pc' = "step3_fill"
    /\ UNCHANGED <<heap, inputs, roster, search, clique_student_lists, clique_index, k,
                   stragglers, straggler_index, exception, result>>

\* step 3: a pass of the inner while loop that saves all_cliques[0]
Step3SaveClique ==
    /\ pc = "step3_fill"
    /\ size(largest_fragment_team) < min_team_size
    /\ k' = min_team_size - size(largest_fragment_team)
    /\ LET all_cliques == find_lte_cliques(get_remaining_students(students), k')
       IN  /\ all_cliques # <<>>
           /\ team_students' = add_students(team_students, largest_fragment_team,
                                            all_cliques[1])
           /\ student_team' = add_team(student_team, largest_fragment_team,
                                       all_cliques[1])
    /\ UNCHANGED <<heap, pc, inputs, search, clique_student_lists, clique_index,
                   largest_fragment_team, stragglers, straggler_index, exception,
                   result>>

\* step 3: a pass of the inner while loop whose all_cliques is empty, so that
\* all_cliques[0] raises IndexError
Step3IndexError ==
    /\ pc = "step3_fill"
    /\ size(largest_fragment_team) < min_team_size
    /\ k' = min_team_size - size(largest_fragment_team)
    /\ find_lte_cliques(get_remaining_students(students), k') = <<>>
    /\ exception' = "IndexError"
    /\ pc' = "raised"
    /\ UNCHANGED <<heap, inputs, roster, search, clique_student_lists, clique_index,
                   largest_fragment_team, stragglers, straggler_index, result>>

\* step 3: the inner while loop ends
Step3FragmentFilled ==
    /\ pc = "step3_fill"
    /\ size(largest_fragment_team) >= min_team_size
    /\ pc' = "step3"
    /\ UNCHANGED <<heap, inputs, roster, search, social, result>>

\* step 3 ends, with no student remaining or no fragment team, and step 4
\* takes the remaining students to iterate over
Step4Start ==
    /\ pc = "step3"
    /\ get_remaining_students(students) = <<>> \/ get_largest_fragment_team(teams) = None
    /\ stragglers' = get_remaining_students(students)
    /\ straggler_index' = 1
    /\ pc' = "step4_loop"
    /\ UNCHANGED <<heap, inputs, roster, search, clique_student_lists, clique_index, k,
                   largest_fragment_team, exception, result>>

\* step 4: one pass of the outer for loop, whose inner for loop saves the
\* student to every team of get_available_teams
Step4SaveStudent ==
    /\ pc = "step4_loop"
    /\ straggler_index <= Len(stragglers)
    /\ LET student == stragglers[straggler_index]
           available == get_available_teams(teams)
       IN  /\ team_students' =
                 [t \in Teams |-> IF t \in Range(available)
                                  THEN team_students[t] \o <<student>>
                                  ELSE team_students[t]]
           /\ student_team' =
                 IF available = <<>> THEN student_team
                 ELSE [student_team EXCEPT ![student] = available[Len(available)]]
    /\ straggler_index' = straggler_index + 1
    /\ UNCHANGED <<heap, pc, inputs, search, clique_student_lists, clique_index, k,
                   largest_fragment_team, stragglers, exception, result>>

\* return teams
SocialReturn ==
    /\ pc = "step4_loop"
    /\ straggler_index > Len(stragglers)
    /\ result' = team_students
    /\ pc' = "done"
    /\ UNCHANGED <<heap, inputs, roster, search, social>>

\* ------------------------------------------------------- Python values
\* a Python value by what validate reads of it: its type, its number (a float
\* is held as twice its value, a str or list as its length) and its text
PyNone == [type |-> "NoneType", v |-> 0, s |-> ""]
PyInt(n) == [type |-> "int", v |-> n, s |-> ""]
PyFloat(twice) == [type |-> "float", v |-> twice, s |-> ""]
PyStr(text) == [type |-> "str", v |-> IF text = "" THEN 0 ELSE 1, s |-> text]
\* a list of numbers, by its length
PyList(len) == [type |-> "list", v |-> len, s |-> ""]

\* bool(x)
truthy(x) == x.type # "NoneType" /\ x.v # 0

\* isinstance(x, int)
isinstance_int(x) == x.type = "int"

\* isinstance(x, str)
isinstance_str(x) == x.type = "str"

\* x or default
py_or(x, default) == IF truthy(x) THEN x ELSE default

\* a list of dicts, or something else in its place: bool() of a list is
\* whether it has items
PyDicts(items) == [type |-> "list", items |-> items]
NotAList(type) == [type |-> type, items |-> <<>>]
truthy_list(x) == IF x.type = "list" THEN x.items # <<>> ELSE x.type # "NoneType"

\* ------------------------------------------------------ AlgorithmOptions
BEHAVIOUR_OPTIONS == {"enforce", "invert", "ignore"}

\* the attributes __init__ sets before it calls validate
initialized(args) ==
    [diversity_weight |-> args.diversity_weight,
     preference_weight |-> args.preference_weight,
     requirement_weight |-> args.requirement_weight,
     social_weight |-> args.social_weight,
     max_project_preferences |-> args.max_project_preferences,
     blacklist_behaviour |-> py_or(args.blacklist_behaviour, PyStr("ignore")),
     whitelist_behaviour |-> py_or(args.whitelist_behaviour, PyStr("ignore")),
     diversify_options |-> IF truthy_list(args.diversify_options)
                           THEN args.diversify_options ELSE PyDicts(<<>>),
     concentrate_options |-> IF truthy_list(args.concentrate_options)
                             THEN args.concentrate_options ELSE PyDicts(<<>>),
     priorities |-> IF truthy_list(args.priorities)
                    THEN args.priorities ELSE PyDicts(<<>>)]

\* validate_int of validate
validate_int(self) ==
    <<self.diversity_weight, self.preference_weight, self.requirement_weight,
      self.social_weight, self.max_project_preferences>>

\* the loop over validate_int raises
int_check_raises(self) ==
    \E i \in 1..Len(validate_int(self)) :
        truthy(validate_int(self)[i]) /\ ~isinstance_int(validate_int(self)[i])

\* the loop over validate_str raises
str_check_raises(self) ==
    \E item \in {self.blacklist_behaviour, self.whitelist_behaviour} :
        ~isinstance_str(item) \/ item.s \notin BEHAVIOUR_OPTIONS

\* Schema([{'id': int}]) rejects the value
options_list_invalid(x) ==
    \/ x.type # "list"
    \/ \E i \in 1..Len(x.items) :
          x.items[i].keys # {"id"} \/ ~isinstance_int(x.items[i].id)

\* Schema([[{'id': int}]]).validate(validate_options_list) raises SchemaError
options_check_raises(self) ==
    options_list_invalid(self.concentrate_options)
        \/ options_list_invalid(self.diversify_options)

PRIORITY_KEYS == {"order", "type", "id", "max_of", "min_of", "value"}

\* priorities_schema rejects the value
priorities_schema_raises(x) ==
    \/ x.type # "list"
    \/ \E i \in 1..Len(x.items) :
          \/ x.items[i].keys # PRIORITY_KEYS
          \/ ~isinstance_int(x.items[i].order)
          \/ ~isinstance_str(x.items[i].type)
          \/ ~isinstance_int(x.items[i].id)
          \/ ~isinstance_int(x.items[i].max_of)
          \/ ~isinstance_int(x.items[i].min_of)
          \/ ~isinstance_int(x.items[i].value)

\* conf_inner without its first test
conf_inner_raises_value_only(d) ==
    d.value.v = -1 /\ (d.max_of.v # -1 \/ d.min_of.v # -1)

\* conf_inner raises (on a dict the schema has accepted)
conf_inner_raises(d) ==
    \/ d.max_of.v # -1 /\ d.min_of.v # -1
    \/ d.value.v = -1 /\ (d.max_of.v # -1 \/ d.min_of.v # -1)

\* the try block of validate raises AlgorithmException
priorities_check_raises(self) ==
    \/ priorities_schema_raises(self.priorities)
    \/ \E i \in 1..Len(self.priorities.items) : conf_inner_raises(self.priorities.items[i])

\* AlgorithmOptions.validate raises AlgorithmException
validate_raises(self) ==
    \/ int_check_raises(self)
    \/ str_check_raises(self)
    \/ options_check_raises(self)
    \/ priorities_check_raises(self)

\* AlgorithmOptions(...) returns the object
ConstructOptions ==
    /\ pc = "construct"
    /\ ~validate_raises(initialized(arguments))
    /\ options' = initialized(arguments)
    /\ pc' = "constructed"
    /\ UNCHANGED <<heap, algorithm, students, is_locked, initial_team_students,
                   max_teams_size, min_team_size, attributes, relationships,
                   preferences, arguments, roster, search, social, result>>

\* AlgorithmOptions(...) raises AlgorithmException out of validate
ConstructOptionsRaises ==
    /\ pc = "construct"
    /\ validate_raises(initialized(arguments))
    /\ exception' = "AlgorithmException"
    /\ pc' = "raised"
    /\ UNCHANGED <<heap, inputs, roster, search, clique_student_lists, clique_index, k,
                   largest_fragment_team, stragglers, straggler_index, result>>

\* consts.FRIEND, consts.DEFAULT and consts.ENEMY (design document)
RELATIONSHIPS == {"FRIEND", "DEFAULT", "ENEMY"}

\* get_adjusted_relationships with the blacklist tests chained to the
\* whitelist tests by elif
get_adjusted_relationships_one_chain(self) ==
    LET adjusted_relationships ==
            IF self.whitelist_behaviour = PyStr("invert")
            THEN [r \in RELATIONSHIPS |-> IF r = "FRIEND" THEN "ENEMY" ELSE r]
            ELSE IF self.whitelist_behaviour = PyStr("ignore")
            THEN [r \in RELATIONSHIPS |-> IF r = "FRIEND" THEN "DEFAULT" ELSE r]
            ELSE IF self.blacklist_behaviour = PyStr("invert")
            THEN [r \in RELATIONSHIPS |-> IF r = "ENEMY" THEN "FRIEND" ELSE r]
            ELSE IF self.blacklist_behaviour = PyStr("ignore")
            THEN [r \in RELATIONSHIPS |-> IF r = "ENEMY" THEN "DEFAULT" ELSE r]
            ELSE [r \in RELATIONSHIPS |-> r]
    IN  <<adjusted_relationships,
          \E r \in RELATIONSHIPS : r # adjusted_relationships[r]>>

\* AlgorithmOptions.get_adjusted_relationships: the table and is_modified
get_adjusted_relationships(self) ==
    LET enforced == [r \in RELATIONSHIPS |-> r]
        whitelisted ==
            IF self.whitelist_behaviour = PyStr("invert")
            THEN [enforced EXCEPT !["FRIEND"] = "ENEMY"]
            ELSE IF self.whitelist_behaviour = PyStr("ignore")
            THEN [enforced EXCEPT !["FRIEND"] = "DEFAULT"]
            ELSE enforced
        adjusted_relationships ==
            IF self.blacklist_behaviour = PyStr("invert")
            THEN [whitelisted EXCEPT !["ENEMY"] = "FRIEND"]
            ELSE IF self.blacklist_behaviour = PyStr("ignore")
            THEN [whitelisted EXCEPT !["ENEMY"] = "DEFAULT"]
            ELSE whitelisted
    IN  <<adjusted_relationships,
          \E r \in RELATIONSHIPS : r # adjusted_relationships[r]>>

\* options.get_adjusted_relationships() on the constructed object
GetAdjustedRelationships ==
    /\ pc = "constructed"
    /\ result' = get_adjusted_relationships(options)
    /\ pc' = "adjusted"
    /\ UNCHANGED <<heap, inputs, roster, search, social>>

\* PriorityAlgorithm(options): Algorithm.__init__ keeps the caller's object as
\* self.options and set_default_weights assigns to it
ConstructPriorityAlgorithm ==
    /\ pc = "constructed"
    /\ options' = set_default_weights(options)
    /\ pc' = "priority_constructed"
    /\ UNCHANGED <<heap, algorithm, students, is_locked, initial_team_students,
                   max_teams_size, min_team_size, attributes, relationships,
                   preferences, arguments, roster, search, social, result>>

\* ------------------------------------------------------------ the inputs
Option(rw, sw, dw, pw, dopts, copts) ==
    [requirement_weight |-> rw, social_weight |-> sw, diversity_weight |-> dw,
     preference_weight |-> pw, max_project_preferences |-> 2,
     diversify_options |-> dopts, concentrate_options |-> copts,
     priorities |-> <<>>]

Priority(order, min_of, max_of, value) ==
    [order |-> order, type |-> "diversify", id |-> 1,
     max_of |-> max_of, min_of |-> min_of, value |-> value]

\* the priorities the priority search is run with
PriorityLists ==
    { <<>>,
      <<Priority(1, 1, -1, 10)>>,
      <<Priority(1, -1, 1, 3)>>,
      <<Priority(2, 1, -1, 3), Priority(1, -1, 0, 10)>> }

\* the option objects PriorityAlgorithm is constructed with
PriorityOptions ==
    {[Option(0, 0, 0, 0, <<[id |-> 1]>>, <<>>) EXCEPT !.priorities = p] :
        p \in PriorityLists}

\* the option objects the weight strategy is run with: every term alone, with
\* either sign, all terms together and none
WeightOptions ==
    { Option(1, 0, 0, 0, <<>>, <<>>), Option(-1, 0, 0, 0, <<>>, <<>>),
      Option(0, 1, 0, 0, <<>>, <<>>), Option(0, -1, 0, 0, <<>>, <<>>),
      Option(0, 0, 1, 0, <<[id |-> 1]>>, <<>>),
      Option(0, 0, 1, 0, <<>>, <<[id |-> 1]>>),
      Option(0, 0, 0, 1, <<>>, <<>>), Option(0, 0, 0, 0, <<>>, <<>>),
      Option(1, 1, 1, 1, <<[id |-> 1]>>, <<>>) }

\* the option objects the subclass of WeightAlgorithm is run with
SubclassOptions ==
    { Option(1, 0, 0, 0, <<>>, <<>>), Option(0, 0, 0, 0, <<>>, <<>>) }

AttributeValues == {3, 10}

\* neighbours in id order are mutual friends; a student calls the one two
\* ids above an enemy, who does not return it
ChainRelationships ==
    [a \in Students |-> [b \in Students |->
        IF a - b = 1 \/ b - a = 1 THEN "FRIEND"
        ELSE IF b - a = 2 THEN "ENEMY" ELSE "DEFAULT"]]

\* student s ranks project s (mod the teams) first and project 1 second
RankedPreferences ==
    [s \in Students |-> IF (s % NumTeams) + 1 = 1 THEN <<1>>
                                       ELSE <<(s % NumTeams) + 1, 1>>]

\* a roster with its members, every student in at most one team and no team
\* above the maximum size: member lists in id order
RosterOf(assignment) ==
    [t \in Teams |-> SetToSeq({s \in Students : assignment[s] = t})]

\* the back-references of the students of student_list, who are in at most
\* one team each, with at most max students to a team
Assignments(student_list, max) ==
    {a \in [Students -> {None} \cup Teams] :
        /\ \A s \in Students \ Range(student_list) : a[s] = None
        /\ \A t \in Teams : Cardinality({s \in Students : a[s] = t}) <= max}

InitRoster(max) ==
    /\ student_team \in Assignments(students, max)
    /\ team_students = RosterOf(student_team)
    /\ initial_team_students = team_students
    /\ is_locked \in [Teams -> BOOLEAN]

\* a local that is not bound yet
Unbound == -1

\* no call made yet
NoCall == [call |-> "none", object |-> None, value |-> None]

\* no PriorityTeamSet of priority_teamset.py constructed yet
InitHeap ==
    /\ priority_team_sets = <<>>
    /\ returned = NoCall
    /\ first_returned = <<>>

InitSocialLocals ==
    /\ clique_student_lists = <<>>
    /\ clique_index = Unbound
    /\ k = Unbound
    /\ largest_fragment_team = None
    /\ stragglers = <<>>
    /\ straggler_index = Unbound
    /\ exception = "none"

\* the attributes of the students of student_list; the other ids hold a 3
AttributesOf(student_list) ==
    {a \in [Students -> AttributeValues] :
        \A s \in Students \ Range(student_list) : a[s] = 3}

Init ==
    /\ algorithm \in {"weight", "weight_subclass", "random", "priority"}
    /\ pc = "choose_loop"
    /\ students = [i \in 1..ChooseLoopStudents |-> i]
    /\ max_teams_size \in 1..MaxTeamSize
    /\ InitRoster(max_teams_size)
    /\ min_team_size = 1
    /\ InitSocialLocals
    /\ InitHeap
    /\ CASE algorithm = "weight" ->
                /\ options \in WeightOptions
                /\ attributes \in AttributesOf(students)
         [] algorithm = "weight_subclass" ->
                /\ options \in SubclassOptions
                /\ attributes \in AttributesOf(students)
         [] algorithm = "priority" ->
                /\ options \in {set_default_weights(o) : o \in PriorityOptions}
                /\ attributes \in AttributesOf(students)
         [] OTHER ->
                /\ options = Option(0, 0, 0, 0, <<>>, <<>>)
                /\ attributes = [s \in Students |-> 3]
    /\ relationships = ChainRelationships
    /\ preferences = RankedPreferences
    /\ team_sets = <<>>
    /\ iteration = 0
    /\ result = None
    /\ arguments = <<>>

Next ==
    \/ ChooseAndAdd
    \/ ChooseBreak
    \/ GenerateInitialTeams
    \/ PriorityPass
    \/ PriorityReturn

Spec == Init /\ [][Next]_vars

\* the relationships in which the pairs of edges are mutual friends; of every
\* other pair the lower id calls the higher a friend and is called an enemy
RelationshipsOf(edges) ==
    [a \in Students |-> [b \in Students |->
        IF a = b THEN "DEFAULT"
        ELSE IF {a, b} \in edges THEN "FRIEND"
        ELSE IF a < b THEN "FRIEND" ELSE "ENEMY"]]

Pairs(ids) == {{a, b} : a, b \in ids} \ {{a} : a \in ids}

InitSocial ==
    /\ algorithm = "social"
    /\ pc = "step1"
    /\ students \in {[i \in 1..n |-> i] : n \in 1..NumStudents}
    /\ max_teams_size \in 1..SocialMaxTeamSize
    /\ min_team_size \in 1..max_teams_size
    /\ InitRoster(IF InitialMembers < max_teams_size THEN InitialMembers
                                                     ELSE max_teams_size)
    /\ InitSocialLocals
    /\ InitHeap
    /\ options = Option(0, 1, 0, 0, <<>>, <<>>)
    /\ attributes = [s \in Students |-> 3]
    /\ relationships \in {RelationshipsOf(edges) : edges \in SUBSET Pairs(Range(students))}
    /\ preferences = RankedPreferences
    /\ team_sets = <<>>
    /\ iteration = 0
    /\ result = None
    /\ arguments = <<>>

NextSocial ==
    \/ Step1FindCliques
    \/ Step1SaveClique
    \/ Step1End
    \/ Step2SaveClique
    \/ Step2Continue
    \/ Step2End
    \/ Step3PickFragment
    \/ Step3SaveClique
    \/ Step3IndexError
    \/ Step3FragmentFilled
    \/ Step4Start
    \/ Step4SaveStudent
    \/ SocialReturn

SpecSocial == InitSocial /\ [][NextSocial]_vars

\* generate always takes its next step
FairSpecSocial == SpecSocial /\ WF_vars(NextSocial)

\* what a caller may pass for a weight or for max_project_preferences
WeightArguments ==
    {PyNone, PyInt(0), PyInt(2), PyInt(-1), PyFloat(0), PyFloat(3), PyStr(""),
     PyStr("3"), PyList(0), PyList(1)}

WeightNames == {"diversity_weight", "preference_weight", "requirement_weight",
                "social_weight", "max_project_preferences"}

BehaviourArguments ==
    {PyNone, PyStr("enforce"), PyStr("invert"), PyStr("ignore"), PyStr("friendly"),
     PyInt(1)}

OptionsListArguments ==
    {NotAList("NoneType"), PyDicts(<<>>), PyDicts(<<[keys |-> {"id"}, id |-> PyInt(1)]>>),
     PyDicts(<<[keys |-> {"id"}, id |-> PyStr("a")]>>),
     PyDicts(<<[keys |-> {"name"}, id |-> PyNone]>>), NotAList("str")}

PriorityDict(keys, order, min_of, max_of, value) ==
    [keys |-> keys, order |-> order, type |-> PyStr("diversify"), id |-> PyInt(1),
     max_of |-> max_of, min_of |-> min_of, value |-> value]

Unlimited == PriorityDict(PRIORITY_KEYS, PyInt(1), PyInt(-1), PyInt(-1), PyInt(-1))
MinOnly == PriorityDict(PRIORITY_KEYS, PyInt(1), PyInt(2), PyInt(-1), PyInt(5))
MaxOnly == PriorityDict(PRIORITY_KEYS, PyInt(2), PyInt(-1), PyInt(3), PyInt(5))
MaxNoValue == PriorityDict(PRIORITY_KEYS, PyInt(1), PyInt(-1), PyInt(3), PyInt(-1))
MinAndMax == PriorityDict(PRIORITY_KEYS, PyInt(1), PyInt(2), PyInt(3), PyInt(5))
MinAndMaxNoValue == PriorityDict(PRIORITY_KEYS, PyInt(1), PyInt(2), PyInt(3), PyInt(-1))
MinAndMaxZero == PriorityDict(PRIORITY_KEYS, PyInt(1), PyInt(0), PyInt(0), PyInt(0))
MinAndMaxFloat == PriorityDict(PRIORITY_KEYS, PyInt(1), PyFloat(5), PyInt(3), PyInt(5))
MinAndMaxNoOrder ==
    PriorityDict(PRIORITY_KEYS \ {"order"}, PyNone, PyInt(2), PyInt(3), PyInt(5))

PrioritiesArguments ==
    {NotAList("NoneType"), PyDicts(<<>>), NotAList("str"),
     PyDicts(<<Unlimited>>), PyDicts(<<MinOnly, MaxOnly>>), PyDicts(<<MaxNoValue>>),
     PyDicts(<<MinAndMax>>), PyDicts(<<MinOnly, MinAndMax>>),
     PyDicts(<<MinAndMaxNoValue>>), PyDicts(<<MinAndMaxZero, Unlimited>>),
     PyDicts(<<MinAndMaxFloat>>), PyDicts(<<MinAndMaxNoOrder>>)}

\* the constructor calls: one of the five numbers is any value and the other
\* four are all left out or all 1; at most one of the two behaviours and the
\* two option lists is not left out, or both behaviours are options and the
\* lists are left out
ConstructorArguments ==
    {[diversity_weight |-> w["diversity_weight"],
      preference_weight |-> w["preference_weight"],
      requirement_weight |-> w["requirement_weight"],
      social_weight |-> w["social_weight"],
      max_project_preferences |-> w["max_project_preferences"],
      blacklist_behaviour |-> b[1], whitelist_behaviour |-> b[2],
      diversify_options |-> b[3], concentrate_options |-> b[4],
      priorities |-> p] :
        w \in {[n \in WeightNames |-> IF n = name THEN x ELSE rest] :
                  name \in WeightNames, x \in WeightArguments,
                  rest \in {PyNone, PyInt(1)}},
        b \in {bb \in BehaviourArguments \X BehaviourArguments
                        \X OptionsListArguments \X OptionsListArguments :
                  \/ Cardinality({i \in 1..4 : bb[i].type # "NoneType"}) <= 1
                  \/ /\ bb[1].s \in BEHAVIOUR_OPTIONS /\ bb[2].s \in BEHAVIOUR_OPTIONS
                     /\ bb[3].type = "NoneType" /\ bb[4].type = "NoneType"},
        p \in PrioritiesArguments}

InitOptions ==
    /\ algorithm = "none"
    /\ pc = "construct"
    /\ arguments \in ConstructorArguments
    /\ options = initialized(arguments)
    /\ students = <<>>
    /\ max_teams_size = 1
    /\ min_team_size = 1
    /\ student_team = [s \in Students |-> None]
    /\ team_students = [t \in Teams |-> <<>>]
    /\ initial_team_students = team_students
    /\ is_locked = [t \in Teams |-> FALSE]
    /\ InitSocialLocals
    /\ InitHeap
    /\ attributes = [s \in Students |-> 3]
    /\ relationships = ChainRelationships
    /\ preferences = RankedPreferences
    /\ team_sets = <<>>
    /\ iteration = 0
    /\ result = None

NextOptions ==
    \/ ConstructOptions
    \/ ConstructOptionsRaises
    \/ GetAdjustedRelationships
    \/ ConstructPriorityAlgorithm

SpecOptions == InitOptions /\ [][NextOptions]_vars

\* ------------------------------------ priority_teamset.PriorityTeamSet
MaxTeamSetObjects == 3

\* PriorityTeamSet.__init__(*args, **kwargs): it sets score and reads none of
\* its arguments. The dataclass decorator keeps an __init__ the class defines
\* and leaves no class attribute for a field with a default_factory, so the
\* new object has no priority_teams attribute.
init_priority_team_set(priority_teams) ==
    [has_priority_teams |-> FALSE, priority_teams |-> <<>>, score |-> PyNone]

\* what clone returns for a team-set that has priority_teams: the deep copy is
\* handed to the constructor as the keyword argument priority_teams
clone_of(self) == init_priority_team_set(self.priority_teams)

\* scoring.get_priority_satisfaction_array (design document): for each
\* priority the teams whose count of members with its value keeps its limit
get_priority_satisfaction_array(priority_teams, priorities, student_dict) ==
    [i \in 1..Len(priorities) |->
        Cardinality({t \in 1..Len(priority_teams) :
            LET count == Cardinality({j \in 1..Len(priority_teams[t]) :
                            student_dict[priority_teams[t][j]] = priorities[i].value})
            IN  /\ priorities[i].min_of # -1 => count >= priorities[i].min_of
                /\ priorities[i].max_of # -1 => count <= priorities[i].max_of})]

\* scoring.get_multipliers (design document)
get_multipliers(priorities) ==
    [i \in 1..Len(priorities) |-> get_multiplier(priorities, priorities[i])]

\* the sum calculate_score computes when it does not return the cached score
computed_score(self, priorities, student_dict) ==
    LET priority_satisfaction_array ==
            get_priority_satisfaction_array(self.priority_teams, priorities, student_dict)
        multipliers == get_multipliers(priorities)
    IN  PyInt(SumSeq([i \in 1..Len(priorities) |->
                        priority_satisfaction_array[i] * multipliers[i]]))

\* the student-id lists a caller gives a team-set, one per team
PriorityTeamsArguments == { << <<1, 2>>, <<3>> >>, << <<1>>, <<2, 3>> >> }

\* the priorities and the students calculate_score is called with
ScorePriorities ==
    { <<>>, <<Priority(1, 1, -1, 10)>>, <<Priority(1, -1, 1, 3)>> }

StudentDicts ==
    { [s \in Students |-> 3], [s \in Students |-> IF s = 1 THEN 10 ELSE 3] }

\* PriorityTeamSet(priority_teams=...)
NewTeamSet ==
    /\ pc = "team_sets"
    /\ Len(priority_team_sets) < MaxTeamSetObjects
    /\ \E priority_teams \in PriorityTeamsArguments :
          priority_team_sets' =
              Append(priority_team_sets, init_priority_team_set(priority_teams))
    /\ first_returned' = Append(first_returned, PyNone)
    /\ UNCHANGED <<pc, inputs, roster, search, social, result, returned>>

\* the caller assigns the public field: team_set.priority_teams = [...]
SetPriorityTeams ==
    /\ pc = "team_sets"
    /\ \E o \in 1..Len(priority_team_sets), priority_teams \in PriorityTeamsArguments :
          priority_team_sets' =
              [priority_team_sets EXCEPT ![o].has_priority_teams = TRUE,
                                         ![o].priority_teams = priority_teams]
    /\ UNCHANGED <<pc, inputs, roster, search, social, result, returned,
                   first_returned>>

\* the caller changes student ids in place: the last id of the first team
\* moves to the second
ChangeStudentIds ==
    /\ pc = "team_sets"
    /\ \E o \in 1..Len(priority_team_sets) :
          LET ids == priority_team_sets[o].priority_teams
          IN  /\ priority_team_sets[o].has_priority_teams
              /\ ids[1] # <<>>
              /\ priority_team_sets' =
                    [priority_team_sets EXCEPT ![o].priority_teams =
                        << SubSeq(ids[1], 1, Len(ids[1]) - 1),
                           Append(ids[2], ids[1][Len(ids[1])]) >>]
    /\ UNCHANGED <<pc, inputs, roster, search, social, result, returned,
                   first_returned>>

\* clone on a team-set that has priority_teams
Clone ==
    /\ pc = "team_sets"
    /\ Len(priority_team_sets) < MaxTeamSetObjects
    /\ \E o \in 1..Len(priority_team_sets) :
          /\ priority_team_sets[o].has_priority_teams
          /\ priority_team_sets' =
                Append(priority_team_sets, clone_of(priority_team_sets[o]))
          /\ returned' = [call |-> "clone", object |-> o,
                          value |-> Len(priority_team_sets) + 1]
    /\ first_returned' = Append(first_returned, PyNone)
    /\ UNCHANGED <<pc, inputs, roster, search, social, result>>

\* clone on a team-set without the attribute: self.priority_teams raises
CloneRaises ==
    /\ pc = "team_sets"
    /\ \E o \in 1..Len(priority_team_sets) :
          ~priority_team_sets[o].has_priority_teams
    /\ exception' = "AttributeError"
    /\ pc' = "raised"
    /\ UNCHANGED <<heap, inputs, roster, search, clique_student_lists, clique_index,
                   k, largest_fragment_team, stragglers, straggler_index, result>>

\* calculate_score when self.score is true: the cached score is returned
CalculateScoreCached ==
    /\ pc = "team_sets"
    /\ \E o \in 1..Len(priority_team_sets) :
          /\ truthy(priority_team_sets[o].score)
          /\ returned' = [call |-> "calculate_score", object |-> o,
                          value |-> priority_team_sets[o].score]
    /\ UNCHANGED <<pc, inputs, roster, search, social, result, priority_team_sets,
                   first_returned>>

\* calculate_score when self.score is not true: the score is computed, kept
\* and returned
CalculateScoreComputes ==
    /\ pc = "team_sets"
    /\ \E o \in 1..Len(priority_team_sets), priorities \in ScorePriorities,
          student_dict \in StudentDicts :
          LET self == priority_team_sets[o]
              new_score == computed_score(self, priorities, student_dict)
          IN  /\ ~truthy(self.score)
              /\ self.has_priority_teams
              /\ priority_team_sets' = [priority_team_sets EXCEPT ![o].score = new_score]
              /\ returned' = [call |-> "calculate_score", object |-> o,
                              value |-> new_score]
              /\ first_returned' =
                    [first_returned EXCEPT ![o] = IF @ = PyNone THEN new_score ELSE @]
    /\ UNCHANGED <<pc, inputs, roster, search, social, result>>

\* calculate_score when self.score is not true on a team-set without the
\* attribute: self.priority_teams raises
CalculateScoreRaises ==
    /\ pc = "team_sets"
    /\ \E o \in 1..Len(priority_team_sets) :
          /\ ~truthy(priority_team_sets[o].score)
          /\ ~priority_team_sets[o].has_priority_teams
    /\ exception' = "AttributeError"
    /\ pc' = "raised"
    /\ UNCHANGED <<heap, inputs, roster, search, clique_student_lists, clique_index,
                   k, largest_fragment_team, stragglers, straggler_index, result>>

InitTeamSets ==
    /\ algorithm = "none"
    /\ pc = "team_sets"
    /\ arguments = <<>>
    /\ options = Option(0, 0, 0, 0, <<>>, <<>>)
    /\ students = <<>>
    /\ max_teams_size = 1
    /\ min_team_size = 1
    /\ student_team = [s \in Students |-> None]
    /\ team_students = [t \in Teams |-> <<>>]
    /\ initial_team_students = team_students
    /\ is_locked = [t \in Teams |-> FALSE]
    /\ InitSocialLocals
    /\ InitHeap
    /\ attributes = [s \in Students |-> 3]
    /\ relationships = ChainRelationships
    /\ preferences = RankedPreferences
    /\ team_sets = <<>>
    /\ iteration = 0
    /\ result = None

NextTeamSets ==
    \/ NewTeamSet
    \/ SetPriorityTeams
    \/ ChangeStudentIds
    \/ Clone
    \/ CloneRaises
    \/ CalculateScoreCached
    \/ CalculateScoreComputes
    \/ CalculateScoreRaises

SpecTeamSets == InitTeamSets /\ [][NextTeamSets]_vars
\* ------------------------------------------------------------- properties
\* what the teams of the roster could still take when generate was called
initial_spare_capacity ==
    SumSeq([t \in 1..NumTeams |-> max_teams_size - Len(initial_team_students[t])])

\* the teams that hold the student, and how often the student's team holds it
teams_holding(student) == {t \in Teams : student \in Range(team_students[t])}

times_in_team(student, team) ==
    Cardinality({i \in 1..Len(team_students[team]) : team_students[team][i] = student})

C1_case ==
    /\ algorithm = "weight"
    /\ pc = "done"
    /\ students # <<>>
    /\ \A t \in Teams : ~is_locked[t]
    /\ initial_spare_capacity >= Len(students)

\* C1: with a non-empty student list, no locked team and a spare capacity of
\* at least the number of students, WeightAlgorithm.generate ends with every
\* student in exactly one team, once, and none unassigned.
C1_WeightAssignsEveryStudent ==
    C1_case =>
        \A s \in Range(students) :
            /\ is_added(s)
            /\ teams_holding(s) = {student_team[s]}
            /\ times_in_team(s, student_team[s]) = 1

\* generate ends in the case of C1 after it added students to both kinds of
\* teams, with a student whose utility was not positive among them
C1_witness ==
    /\ C1_case
    /\ team_students # initial_team_students
    /\ options.requirement_weight = -1
    /\ \E s \in Students : initial_team_students[1] = <<s>>

\* C2: in every state of RandomAlgorithm.generate the members of a locked team
\* are those it started with and no team holds more than max_teams_size.
C2_RandomKeepsLocksAndMaxSize ==
    algorithm = "random" =>
        \A t \in Teams :
            /\ is_locked[t] => team_students[t] = initial_team_students[t]
            /\ size(t) <= max_teams_size

\* the random strategy ends with a locked team below the maximum size, a full
\* team it filled and a student left unassigned
C2_witness ==
    /\ algorithm = "random"
    /\ pc = "done"
    /\ \E t \in Teams : is_locked[t] /\ size(t) < max_teams_size
    /\ \E t \in Teams : /\ size(t) = max_teams_size
                        /\ team_students[t] # initial_team_students[t]
    /\ \E s \in Students : ~is_added(s)

\* C4: in every state, for every team and every member of it, the combined
\* utility of the member against the team is 0, whatever the weights.
C4_MemberHasZeroUtility ==
    \A t \in Teams : \A s \in Range(get_students(t)) : get_utility(t, s) = 0

\* a student the weight strategy added to a team, whose four terms against
\* that team do not sum to 0
C4_witness ==
    /\ algorithm = "weight"
    /\ \E t \in Teams : \E s \in Range(get_students(t)) :
          /\ s \notin Range(initial_team_students[t])
          /\ get_utility_no_member_test(t, s) # 0

\* C5: the teams PriorityAlgorithm.generate returns after at least one pass
\* of its loop score no less than the seed team-set, that is the teams the
\* weight strategy left.
C5_PriorityReturnsAtLeastSeedScore ==
    (algorithm = "priority" /\ pc = "done" /\ iteration >= 1) =>
        score(PriorityTeamSet(result)) >= score(PriorityTeamSet(team_students))

\* the search returns after two passes with NUM_KEPT_TEAM_SETS team-sets kept
\* and a seed whose two priorities are both met by some team
C5_witness ==
    /\ algorithm = "priority"
    /\ pc = "done"
    /\ iteration >= 2
    /\ Len(team_sets) = NUM_KEPT_TEAM_SETS
    /\ Len(options.priorities) = 2
    /\ score(PriorityTeamSet(team_students)) > NumTeams + 1

\* the first place of x in list
index_of(list, x) == CHOOSE i \in 1..Len(list) : list[i] = x /\ \A j \in 1..(i - 1) : list[j] # x

\* C10: for every non-empty list of teams and every non-empty list of
\* students, WeightAlgorithm.choose returns the first team of the smallest
\* size and the first student of the greatest combined utility against that
\* team, also when no utility is positive; with a requirement weight of 1
\* alone, a team that asks for an attribute above 5 and two candidates of
\* attribute 10 and 3, it returns the one of attribute 10.
C10_WeightChoosesSmallestTeamGreatestUtility ==
    algorithm = "weight" =>
        \A team_list \in ListsOver(Teams) \ {<<>>} :
        \A student_list \in ListsOver(Range(students)) \ {<<>>} :
            LET pair == weight_choose(team_list, student_list)
            IN  /\ pair[1] \in Range(team_list)
                /\ \A j \in 1..Len(team_list) :
                      /\ size(team_list[j]) >= size(pair[1])
                      /\ j < index_of(team_list, pair[1]) =>
                            size(team_list[j]) > size(pair[1])
                /\ pair[2] \in Range(student_list)
                /\ \A n \in 1..Len(student_list) :
                      /\ get_utility(pair[1], student_list[n])
                            <= get_utility(pair[1], pair[2])
                      /\ n < index_of(student_list, pair[2]) =>
                            get_utility(pair[1], student_list[n])
                                < get_utility(pair[1], pair[2])
                /\ (/\ options = Option(1, 0, 0, 0, <<>>, <<>>)
                    /\ team_list = <<1>>
                    /\ Len(student_list) = 2
                    /\ \A n \in 1..2 : student_list[n] \notin Range(get_students(1))
                    /\ {attributes[student_list[n]] : n \in 1..2} = {3, 10})
                   => attributes[pair[2]] = 10

\* after a first addition the choose-loop is about to choose among two
\* teams, the second the smaller, and at least two remaining students whose
\* utilities against that team are all the same negative number
C10_witness ==
    /\ algorithm = "weight"
    /\ pc = "choose_loop"
    /\ team_students # initial_team_students
    /\ LET available == get_available_teams(teams)
           remaining == get_remaining_students(students)
       IN  /\ Len(available) >= 2
           /\ size(available[2]) < size(available[1])
           /\ Len(remaining) >= 2
           /\ \A n \in 1..Len(remaining) :
                 get_utility(available[2], remaining[n]) = -1
\* C3: under every strategy the members of a locked team are, in every state
\* of generate, those it had when generate was called.
C3_LockedTeamNeverMutated ==
    \A t \in Teams : is_locked[t] => team_students[t] = initial_team_students[t]

\* C8: SocialAlgorithm.generate never raises: when step 3 finds no clique for
\* a team still below min_team_size it goes on or ends.
C8_SocialNeverRaises == exception = "none"

\* the cliques of max_teams_size among the students passed to generate
full_cliques == get_cliques(students, max_teams_size)

\* the students split into disjoint mutual-friend cliques of max_teams_size
\* with no friendship between two cliques, none of them is in a team yet, and
\* the roster has at least as many empty unlocked teams as there are cliques
C9_scenario ==
    /\ \A s \in Range(students) :
          Cardinality({i \in 1..Len(full_cliques) : s \in full_cliques[i]}) = 1
    /\ \A a, b \in Range(students) :
          has_edge(a, b) => \E i \in 1..Len(full_cliques) : {a, b} \subseteq full_cliques[i]
    /\ \A t \in Teams : initial_team_students[t] = <<>>
    /\ Cardinality({t \in Teams : ~is_locked[t]}) >= Len(full_cliques)

\* every clique is the whole membership of a team and every student is in
\* exactly one team, once
C9_placed ==
    /\ \A i \in 1..Len(full_cliques) :
          \E t \in Teams : /\ Range(team_students[t]) = full_cliques[i]
                           /\ size(t) = max_teams_size
    /\ \A s \in Range(students) :
          /\ is_added(s)
          /\ teams_holding(s) = {student_team[s]}
          /\ times_in_team(s, student_team[s]) = 1

\* C9: in that scenario SocialAlgorithm.generate ends, with every clique
\* placed as the whole membership of a team of its own.
C9_DisjointCliquesGetOwnTeams ==
    C9_scenario => <>(pc = "done" /\ C9_placed)

\* the same with exactly as many teams as cliques, none of them locked
C9_as_many_teams_as_cliques ==
    (C9_scenario /\ Len(full_cliques) = NumTeams)
        => <>(pc = "done" /\ C9_placed)
\* a priority dict whose min_of and max_of are both set, that is both given
\* and neither the unset marker -1
both_set(d) ==
    /\ {"min_of", "max_of"} \subseteq d.keys
    /\ d.min_of # PyInt(-1)
    /\ d.max_of # PyInt(-1)

C6_case ==
    /\ arguments.priorities.type = "list"
    /\ \E i \in 1..Len(arguments.priorities.items) :
          both_set(arguments.priorities.items[i])

\* C6: AlgorithmOptions constructed with a priorities list that holds a
\* priority with both min_of and max_of set raises AlgorithmException and
\* returns no object, whatever the other arguments.
C6_BothLimitsSetRaises ==
    (pc # "construct" /\ C6_case) =>
        (pc = "raised" /\ exception = "AlgorithmException")

\* the constructor raised for priorities [{min_of: 2, max_of: 3, value: 5}]
\* that pass the schema, every other argument being valid
C6_witness ==
    /\ pc = "raised"
    /\ exception = "AlgorithmException"
    /\ arguments.priorities = PyDicts(<<MinAndMax>>)
    /\ ~int_check_raises(initialized(arguments))
    /\ ~str_check_raises(initialized(arguments))
    /\ ~options_check_raises(initialized(arguments))
    /\ ~priorities_schema_raises(initialized(arguments).priorities)

\* C7: AlgorithmOptions constructed with a weight or max_project_preferences
\* that is given and is not an integer raises AlgorithmException and returns
\* no object, for every such value.
C7_NonIntegerWeightRaises ==
    (/\ pc # "construct"
     /\ \E name \in WeightNames : arguments[name].type \notin {"NoneType", "int"})
        => (pc = "raised" /\ exception = "AlgorithmException")
Min(a, b) == IF a < b THEN a ELSE b

\* what the unlocked teams of a roster below the maximum size can still take
unlocked_spare_capacity(roster_students) ==
    SumSeq([t \in 1..NumTeams |->
        IF is_locked[t] \/ Len(roster_students[t]) >= max_teams_size THEN 0
        ELSE max_teams_size - Len(roster_students[t])])

\* the back-reference a student had when generate was called
initial_student_team(student) ==
    IF \E t \in Teams : student \in Range(initial_team_students[t])
    THEN CHOOSE t \in Teams : student \in Range(initial_team_students[t])
    ELSE None

initial_unassigned ==
    Cardinality({s \in Range(students) : initial_student_team(s) = None})

\* the students of the list who are in no team now
unassigned == {s \in Range(students) : student_team[s] = None}

\* the students added since generate was called
additions ==
    SumSeq([t \in 1..NumTeams |->
        Len(team_students[t]) - Len(initial_team_students[t])])

\* the additions the choose-loop is to perform
C11_expected == Min(initial_unassigned, unlocked_spare_capacity(initial_team_students))

\* one pass adds one student who was unassigned to one team, at its end
C11_one_addition ==
    \E s \in Range(students), t \in Teams :
        /\ s \in unassigned
        /\ team_students' = [team_students EXCEPT ![t] = Append(@, s)]
        /\ student_team' = [student_team EXCEPT ![s] = t]

\* C11: the choose-loop of the Weight and Random strategies adds exactly one
\* unassigned student per pass and ends after min(unassigned students, spare
\* capacity of the unlocked teams) additions; when that number is 0 the member
\* lists and the back-references stay as they were.
C11_ChooseLoopTerminates ==
    /\ [](algorithm \in {"weight", "random"} =>
            /\ exception = "none"
            /\ pc = "choose_loop" =>
                  additions + Min(Cardinality(unassigned),
                                  unlocked_spare_capacity(team_students))
                      = C11_expected
            /\ pc = "done" => additions = C11_expected
            /\ C11_expected = 0 =>
                  /\ team_students = initial_team_students
                  /\ \A s \in Students : student_team[s] = initial_student_team(s))
    /\ [][(algorithm \in {"weight", "random"} /\ pc' = "choose_loop")
             => C11_one_addition]_vars

\* the loop ended after two additions with a student still unassigned and a
\* locked team below the maximum size left as it was
C11_witness ==
    /\ algorithm \in {"weight", "random"}
    /\ pc = "done"
    /\ additions = 2
    /\ unassigned # {}
    /\ \E t \in Teams : is_locked[t] /\ size(t) < max_teams_size
\* the stragglers step 4 has gone through
placed_stragglers ==
    IF pc \in {"step4_loop", "done"} /\ straggler_index # Unbound
    THEN {stragglers[i] : i \in 1..(straggler_index - 1)}
    ELSE {}

\* C12: in step 4 of SocialAlgorithm.generate a student still unassigned is
\* added to one team only, the team its back-reference names, also when several
\* teams are unlocked and below the maximum size.
C12_StragglerInOneTeam ==
    \A s \in placed_stragglers :
        /\ Cardinality(teams_holding(s)) <= 1
        /\ teams_holding(s) \subseteq {student_team[s]}
\* C13: step 2 of SocialAlgorithm.generate always ends: whenever generate is
\* in its while loop over the empty teams it leaves that loop later.
C13_Step2Terminates == (pc = "step2") ~> (pc # "step2")
\* C14: during and at the end of step 1 of SocialAlgorithm.generate no student
\* is a member of more than one team, also when the cliques of max_teams_size
\* overlap.
C14_Step1PlacesUnassignedOnly ==
    pc = "step1_loop" =>
        \A s \in Range(students) : Cardinality(teams_holding(s)) <= 1
\* the kept team-sets with one child of each
population_with_children ==
    team_sets \o [i \in 1..Len(team_sets) |-> [teams |-> team_sets[i].teams]]

\* kept holds the highest-scoring team-sets of pool: each is one of pool and
\* fewer than i team-sets of pool score above the i-th
highest_scoring(kept, pool) ==
    \A i \in 1..Len(kept) :
        /\ kept[i] \in Range(pool)
        /\ Cardinality({j \in 1..Len(pool) : score(pool[j]) > score(kept[i])}) < i

\* C15: at the end of every pass of the loop of PriorityAlgorithm.generate
\* the kept team-sets are at least 1 and at most NUM_KEPT_TEAM_SETS, in
\* descending order of score, and are the highest-scoring of the team-sets
\* kept before with one child of each.
C15_KeptPopulation ==
    /\ []((pc = "priority_loop" /\ iteration >= 1) =>
            /\ Len(team_sets) >= 1
            /\ Len(team_sets) <= NUM_KEPT_TEAM_SETS
            /\ \A i \in 1..(Len(team_sets) - 1) :
                  score(team_sets[i]) >= score(team_sets[i + 1]))
    /\ [][(pc = "priority_loop" /\ iteration' = iteration + 1) =>
            /\ Len(team_sets') = Min(NUM_KEPT_TEAM_SETS, 2 * Len(team_sets))
            /\ highest_scoring(team_sets', population_with_children)]_vars

\* the second pass ended: four team-sets were cut to NUM_KEPT_TEAM_SETS, under
\* two priorities
C15_witness ==
    /\ algorithm = "priority"
    /\ pc = "priority_loop"
    /\ iteration = 2
    /\ Len(team_sets) = NUM_KEPT_TEAM_SETS
    /\ Len(options.priorities) = 2
\* C16: a calculate_score call on a team-set returns what the first
\* calculate_score call on that team-set returned, whatever that value was and
\* whatever priorities and students the later call is given.
C16_ScoreCachedOnFirstCall ==
    returned.call = "calculate_score" =>
        returned.value = first_returned[returned.object]

\* C17: the team-set clone returns holds the same list of student-id lists as
\* the team-set it was called on.
C17_CloneHoldsSamePairs ==
    returned.call = "clone" =>
        /\ priority_team_sets[returned.value].has_priority_teams
        /\ priority_team_sets[returned.value].priority_teams
               = priority_team_sets[returned.object].priority_teams
\* what a relationship becomes under the behaviour of its list
adjusted_under(behaviour, relationship, inverse) ==
    CASE behaviour = PyStr("enforce") -> relationship
      [] behaviour = PyStr("invert") -> inverse
      [] behaviour = PyStr("ignore") -> "DEFAULT"

\* C18: get_adjusted_relationships maps FRIEND by the whitelist behaviour
\* alone, ENEMY by the blacklist behaviour alone and DEFAULT to DEFAULT, and
\* says the table is modified exactly when a behaviour is not ENFORCE.
C18_AdjustedRelationships ==
    pc = "adjusted" =>
        /\ result[1]["FRIEND"] = adjusted_under(options.whitelist_behaviour, "FRIEND", "ENEMY")
        /\ result[1]["ENEMY"] = adjusted_under(options.blacklist_behaviour, "ENEMY", "FRIEND")
        /\ result[1]["DEFAULT"] = "DEFAULT"
        /\ result[2] = (\/ options.whitelist_behaviour # PyStr("enforce")
                        \/ options.blacklist_behaviour # PyStr("enforce"))

\* the table was computed for a whitelist that is enforced and a blacklist
\* that is inverted
C18_witness ==
    /\ pc = "adjusted"
    /\ arguments.whitelist_behaviour = PyStr("enforce")
    /\ arguments.blacklist_behaviour = PyStr("invert")
    /\ result[2]
\* C20: the options of a constructed PriorityAlgorithm, which are the caller's
\* object, hold for each of the four weights the integer the caller supplied
\* and 1 where the caller supplied none.
C20_SuppliedWeightsKept ==
    pc = "priority_constructed" =>
        \A name \in WeightNames \ {"max_project_preferences"} :
            /\ arguments[name].type = "int" => options[name] = arguments[name].v
            /\ arguments[name].type = "NoneType" => options[name] = 1
\* C19: under a subclass of WeightAlgorithm that overrides
\* student_permitted_in_team, no student generate has added to a team is one
\* the hook does not permit in that team.
C19_VetoedNeverAdded ==
    algorithm = "weight_subclass" =>
        \A t \in Teams :
            \A s \in Range(team_students[t]) \ Range(initial_team_students[t]) :
                subclass_student_permitted_in_team(s, t)
====
